---- MODULE Spec2Model ----
(***************************************************************************)
(* Model of src/web_downloader/web_downloader.py: the WebDownloader class  *)
(* (page fetch, thread-pool dispatch, the per-element rate-limit check,    *)
(* fetch, duplicate-name resolution and file write) and the main program.  *)
(*                                                                         *)
(* Time is discrete: one tick is ten seconds, so that 60 / rpm is a whole  *)
(* number of ticks for the rates the model draws.  File names and URLs are *)
(* sequences of one-character strings, so that Path.name, Path.stem,       *)
(* Path.suffix and the f-string of the rename loop are computed, not       *)
(* assumed.  One worker thread step is one action; every read or write of  *)
(* shared state (last_request_time, the directory) is a step of its own.   *)
(***************************************************************************)
EXTENDS Integers, Sequences, FiniteSets, TLC

\* ------------------------------------------------------------------ bounds

\* Most element URLs a fetched page yields.
MaxJobs == 2

\* Ticks the clock may advance past its start while no worker sleeps.
MaxElapsed == 1

\* ------------------------------------------------------------- constants

\* The 60 (seconds per minute) of `60 / self.requests_per_minute`, in ticks.
TicksPerMinute == 6

\* time() at program start: the epoch clock is far more than one interval
\* away from the 0.0 that __init__ stores in last_request_time.
StartTime == TicksPerMinute

\* requests_per_minute values the constructor is given.
RpmChoices == {3}

\* ThreadPoolExecutor() default max_workers, min(32, cpu_count + 4), cpu_count = 1.
max_workers == 5

\* ------------------------------------------------------- names and URLs

A_PNG == <<"a", ".", "p", "n", "g">>
A1_PNG == <<"a", "_", "(", "1", ")", ".", "p", "n", "g">>
A2_PNG == <<"a", "_", "(", "2", ")", ".", "p", "n", "g">>
README == <<"R", "E", "A", "D", "M", "E">>

\* Element URLs after urljoin: two different URLs with the same last
\* segment, and one whose last segment has no extension.
URL_H_A == <<"h", "/">> \o A_PNG
URL_G_A == <<"g", "/">> \o A_PNG
URL_H_README == <<"h", "/">> \o README

Urls == {URL_H_A, URL_G_A, URL_H_README}

\* The lists elem_urls can be: any list of at most MaxJobs of the URLs.
UrlLists == UNION {[1..n -> Urls] : n \in 0..MaxJobs}

\* Directory contents before the run (names of the files already there).
InitialDirs == {{}, {A_PNG}, {A_PNG, A1_PNG}, {README}}

\* Content of a file that was in the directory before the run.
OldContent == [by |-> "before", job |-> 0]

\* response.content of job j, as written to its file.
ContentOf(j) == [by |-> "job", job |-> j]

\* Largest index k with s[k] = c, 0 when there is none (str.rfind + 1).
LastIndexOf(s, c) ==
    LET hits == {k \in 1..Len(s) : s[k] = c}
    IN  IF hits = {} THEN 0 ELSE CHOOSE k \in hits : \A m \in hits : m <= k

RECURSIVE StripTrailingSlashes(_)
StripTrailingSlashes(s) ==
    IF Len(s) > 0 /\ s[Len(s)] = "/"
    THEN StripTrailingSlashes(SubSeq(s, 1, Len(s) - 1))
    ELSE s

\* Path(url).name: the last path segment.
PathName(url) ==
    LET t == StripTrailingSlashes(url)
    IN  SubSeq(t, LastIndexOf(t, "/") + 1, Len(t))

\* PathSuffix that always hands back a dot, also when there is no extension.
PathSuffixDotted(name) ==
    LET k == LastIndexOf(name, ".")
    IN  IF 1 < k /\ k < Len(name) THEN SubSeq(name, k, Len(name)) ELSE <<".">>

\* Path(file_name).suffix: from the last dot, unless the dot is the first or
\* the last character of the name.
PathSuffix(name) ==
    LET k == LastIndexOf(name, ".")
    IN  IF 1 < k /\ k < Len(name) THEN SubSeq(name, k, Len(name)) ELSE << >>

\* Path(file_name).stem: the name without its suffix.
PathStem(name) == SubSeq(name, 1, Len(name) - Len(PathSuffix(name)))

DigitChar(d) == <<"0", "1", "2", "3", "4", "5", "6", "7", "8", "9">>[d + 1]

\* str(i) for i >= 0.
RECURSIVE Decimal(_)
Decimal(n) ==
    IF n < 10 THEN <<DigitChar(n)>>
    ELSE Decimal(n \div 10) \o <<DigitChar(n % 10)>>

\* f"{base_name}_({i}){extension}"
FormatDuplicate(base, n, ext) ==
    base \o <<"_", "(">> \o Decimal(n) \o <<")">> \o ext

\* ------------------------------------------------------------------ state

VARIABLES
    now,                 \* the wall clock, time()
    requests_per_minute, \* self.requests_per_minute
    last_request_time,   \* self.last_request_time (shared by all workers)
    folder_exists,       \* whether Path(self.folder_path) exists
    files,               \* the directory: file name -> content
    main_pc,             \* position of the main thread
    page_response,       \* response of the page fetch
    stdout,              \* what print has written, in order
    elem_urls,           \* the list handed to download_multi_threaded
    pc,                  \* per job: position of its worker
    current_time,        \* per job: local current_time
    wake,                \* per job: the time its sleep() ends
    response,            \* per job: response of _make_request
    file_name,           \* per job: file_name of _rename_duplicate_files
    i,                   \* per job: loop counter of _rename_duplicate_files
    req_start,           \* per job: time its _make_request was called, -1 before
    entry_order,         \* jobs in the order they entered download_single_element
    files_before,        \* the directory's names before the run
    naming_files,        \* per job: names present when it entered the rename
    written_at_check,    \* per job: jobs that had written when its last exists() ran
    requests_made,       \* per job: number of calls of _make_request
    done_at_start,       \* per job: jobs that were Done when it entered
    folder_before,       \* whether the folder existed before the run
    folder_usable        \* whether the folder can be created and written to

vars == <<now, requests_per_minute, last_request_time, folder_exists, files,
          main_pc, page_response, stdout, elem_urls, pc, current_time, wake,
          response, file_name, i, req_start, entry_order, files_before,
          naming_files, written_at_check, requests_made, done_at_start,
          folder_before, folder_usable>>

job_vars == <<pc, current_time, wake, response, file_name, i, req_start,
              entry_order, naming_files, written_at_check, requests_made,
              done_at_start>>

Jobs == DOMAIN elem_urls

NoResponse == [raised |-> FALSE, status_code |-> 0]

\* What _make_request can come back with: a response with a status code, or
\* a requests exception (timeout, connection failure, invalid URL).
Outcomes == {[raised |-> FALSE, status_code |-> 200],
             [raised |-> FALSE, status_code |-> 404],
             [raised |-> TRUE, status_code |-> 0]}

\* Interval with the division the wrong way round.
IntervalInverted == requests_per_minute \div TicksPerMinute

\* 60 / self.requests_per_minute
Interval == TicksPerMinute \div requests_per_minute

\* Exists that never sees a file of the directory.
ExistsBlind(name) == name = << >>

\* (folder_path / file_name).exists(); the empty name is the folder itself.
Exists(name) == name = << >> \/ name \in DOMAIN files

\* PageOk that takes every response for a success.
PageOkAnyStatus(r) == ~r.raised

\* `response.status_code == 200` of download_all_elements.
PageOk(r) == ~r.raised /\ r.status_code = 200

\* ElementOk comparing with the wrong status.
ElementOkWrongStatus(r) == ~r.raised /\ r.status_code = 201

\* ElementOk that takes every response for a success.
ElementOkAnyStatus(r) == ~r.raised

\* `response.status_code == 200` of download_single_element.
ElementOk(r) == ~r.raised /\ r.status_code = 200

\* FirstIndex starting the suffixes at 0.
FirstIndexZero == 1 - 1

\* `i = 1` of _rename_duplicate_files.
FirstIndex == 1

\* NextIndex that forgets the increment.
NextIndexStuck(n) == n

\* `i += 1` of _rename_duplicate_files.
NextIndex(n) == n + 1

\* download_single_element has returned or an exception has ended it.
Finished(j) == pc[j] \in {"Done", "Skipped", "Failed"}

Running(j) == pc[j] \notin {"Pending", "Done", "Skipped", "Failed"}

\* OnFailure of a worker that tries the request again.
OnFailureRetry == "Check"

\* Where a job goes after a non-200 response or an exception of the fetch:
\* download_single_element has no else branch and no loop, the call ends.
OnFailure == "Skipped"

\* MustRename of an `if` in place of the `while`: one rename at most.
MustRenameOnce(j) == i[j] = FirstIndex /\ Exists(file_name[j])

\* The loop condition of _rename_duplicate_files for job j.
MustRename(j) == Exists(file_name[j])

\* SleepOver of a sleep that returns at once.
SleepOverAtOnce(j) == TRUE

\* sleep() of job j returns once its duration has passed.
SleepOver(j) == now >= wake[j]

\* AllFinished of an executor shut down without waiting.
AllFinishedNoWait == TRUE

\* Leaving `with ThreadPoolExecutor() as executor` joins every worker.
AllFinished == \A j \in Jobs : Finished(j)

\* Exit status of the interpreter: 1 after an uncaught exception, else 0.
ExitCode == IF main_pc = "raised" THEN 1 ELSE 0

TypeOK ==
    /\ now \in Nat
    /\ requests_per_minute \in RpmChoices
    /\ last_request_time \in Nat
    /\ folder_exists \in BOOLEAN
    /\ main_pc \in {"start", "dispatched", "returned", "raised"}
    /\ elem_urls \in UrlLists
    /\ folder_usable \in BOOLEAN
    /\ folder_before \in BOOLEAN
    /\ pc \in [Jobs -> {"Pending", "Check", "SleepArg", "RateLimited", "Fetching",
                        "Naming", "Writing", "Written", "Done", "Skipped",
                        "Failed"}]

\* ------------------------------------------------------------------- Init

InitFor(usable) ==
    /\ now = StartTime
    /\ requests_per_minute \in RpmChoices
    /\ last_request_time = 0
    /\ \E d \in InitialDirs :
         /\ files = [n \in d |-> OldContent]
         /\ files_before = d
         /\ folder_exists \in (IF d = {} THEN BOOLEAN ELSE {TRUE})
         /\ folder_usable \in (IF d = {} THEN usable ELSE {TRUE})
    /\ folder_before = folder_exists
    /\ main_pc = "start"
    /\ page_response = NoResponse
    /\ stdout = << >>
    /\ elem_urls = << >>
    /\ pc = << >>
    /\ current_time = << >>
    /\ wake = << >>
    /\ response = << >>
    /\ file_name = << >>
    /\ i = << >>
    /\ req_start = << >>
    /\ entry_order = << >>
    /\ naming_files = << >>
    /\ written_at_check = << >>
    /\ requests_made = << >>
    /\ done_at_start = << >>

\* The folder exists or can be created, and files can be written to it.
Init == InitFor({TRUE})

\* The folder may also be unusable: absent where it cannot be created, or a
\* path that exists but is no writable directory.
InitDir == InitFor(BOOLEAN)

\* ---------------------------------------------------------------- actions

\* download_all_elements up to and including the executor.map call: fetch the
\* page; on 200 extract the URLs and submit one job per URL; on another status
\* fall off the end of the function; an exception of requests.get propagates
\* out of main.
PageFetch ==
    /\ main_pc = "start"
    /\ \E r \in Outcomes, urls \in UrlLists :
         /\ page_response' = r
         /\ IF r.raised
            THEN /\ main_pc' = "raised"
                 /\ UNCHANGED <<stdout, elem_urls, job_vars>>
            ELSE IF PageOk(r)
            THEN /\ main_pc' = "dispatched"
                 /\ stdout' = Append(stdout, <<"Downloading">>)
                 /\ elem_urls' = urls
                 /\ pc' = [j \in DOMAIN urls |-> "Pending"]
                 /\ current_time' = [j \in DOMAIN urls |-> 0]
                 /\ wake' = [j \in DOMAIN urls |-> 0]
                 /\ response' = [j \in DOMAIN urls |-> NoResponse]
                 /\ file_name' = [j \in DOMAIN urls |-> << >>]
                 /\ i' = [j \in DOMAIN urls |-> 0]
                 /\ req_start' = [j \in DOMAIN urls |-> -1]
                 /\ naming_files' = [j \in DOMAIN urls |-> {}]
                 /\ written_at_check' = [j \in DOMAIN urls |-> {}]
                 /\ requests_made' = [j \in DOMAIN urls |-> 0]
                 /\ done_at_start' = [j \in DOMAIN urls |-> {}]
                 /\ UNCHANGED entry_order
            ELSE /\ main_pc' = "returned"
                 /\ UNCHANGED <<stdout, elem_urls, job_vars>>
    /\ UNCHANGED <<now, requests_per_minute, last_request_time, folder_exists,
                   files, files_before, folder_before, folder_usable>>

\* A pool thread takes job j and runs line 113: current_time = time().
Start(j) ==
    /\ pc[j] = "Pending"
    /\ Cardinality({k \in Jobs : Running(k)}) < max_workers
    /\ current_time' = [current_time EXCEPT ![j] = now]
    /\ entry_order' = Append(entry_order, j)
    /\ done_at_start' = [done_at_start EXCEPT ![j] = {k \in Jobs : pc[k] = "Done"}]
    /\ pc' = [pc EXCEPT ![j] = "Check"]
    /\ UNCHANGED <<now, requests_per_minute, last_request_time, folder_exists,
                   files, main_pc, page_response, stdout, elem_urls, wake,
                   response, file_name, i, req_start, requests_made, files_before, folder_before, folder_usable,
                   naming_files, written_at_check>>

\* Line 115: the comparison reads last_request_time; when it is false the
\* worker goes straight to _make_request.
Check(j) ==
    /\ pc[j] = "Check"
    /\ IF current_time[j] - last_request_time < Interval
       THEN /\ pc' = [pc EXCEPT ![j] = "SleepArg"]
            /\ UNCHANGED <<req_start, requests_made>>
       ELSE /\ pc' = [pc EXCEPT ![j] = "Fetching"]
            /\ req_start' = [req_start EXCEPT ![j] = now]
            /\ requests_made' = [requests_made EXCEPT ![j] = @ + 1]
    /\ UNCHANGED <<now, requests_per_minute, last_request_time, folder_exists,
                   files, main_pc, page_response, stdout, elem_urls,
                   current_time, wake, response, file_name, i, entry_order, done_at_start,
                   files_before, folder_before, folder_usable, naming_files, written_at_check>>

\* Lines 116-119: the argument of sleep() reads last_request_time again.
SleepArg(j) ==
    /\ pc[j] = "SleepArg"
    /\ wake' = [wake EXCEPT
                  ![j] = now + (Interval - (current_time[j] - last_request_time))]
    /\ pc' = [pc EXCEPT ![j] = "RateLimited"]
    /\ UNCHANGED <<now, requests_per_minute, last_request_time, folder_exists,
                   files, main_pc, page_response, stdout, elem_urls,
                   current_time, response, file_name, i, req_start, requests_made,
                   entry_order, done_at_start, files_before, folder_before, folder_usable, naming_files, written_at_check>>

\* sleep() returns once its duration has passed; line 121 starts the request.
Wake(j) ==
    /\ pc[j] = "RateLimited"
    /\ SleepOver(j)
    /\ pc' = [pc EXCEPT ![j] = "Fetching"]
    /\ req_start' = [req_start EXCEPT ![j] = now]
    /\ requests_made' = [requests_made EXCEPT ![j] = @ + 1]
    /\ UNCHANGED <<now, requests_per_minute, last_request_time, folder_exists,
                   files, main_pc, page_response, stdout, elem_urls,
                   current_time, wake, response, file_name, i, entry_order, done_at_start,
                   files_before, folder_before, folder_usable, naming_files, written_at_check>>

\* Lines 121-124 and 78-82: _make_request returns or raises.  An exception
\* ends the job (the future keeps it; nobody reads the results of
\* executor.map).  On 200 the worker enters _rename_duplicate_files:
\* _check_folder_path creates the folder if absent, then stem, suffix, i = 1.
\* When the folder is absent and cannot be created, mkdir raises and the
\* exception ends the job in the same way.
Respond(j) ==
    /\ pc[j] = "Fetching"
    /\ \E r \in Outcomes :
         /\ response' = [response EXCEPT ![j] = r]
         /\ IF ElementOk(r) /\ ~folder_exists /\ ~folder_usable
            THEN /\ pc' = [pc EXCEPT ![j] = "Failed"]
                 /\ UNCHANGED <<folder_exists, file_name, i, naming_files>>
            ELSE IF ElementOk(r)
            THEN /\ pc' = [pc EXCEPT ![j] = "Naming"]
                 /\ folder_exists' = TRUE
                 /\ file_name' = [file_name EXCEPT ![j] = PathName(elem_urls[j])]
                 /\ i' = [i EXCEPT ![j] = FirstIndex]
                 /\ naming_files' = [naming_files EXCEPT ![j] = DOMAIN files]
            ELSE /\ pc' = [pc EXCEPT ![j] = OnFailure]
                 /\ UNCHANGED <<folder_exists, file_name, i, naming_files>>
    /\ UNCHANGED <<now, requests_per_minute, last_request_time, files, main_pc,
                   page_response, stdout, elem_urls, current_time, wake,
                   req_start, requests_made, entry_order, done_at_start, files_before, folder_before, folder_usable, written_at_check>>

\* Lines 83-86: one evaluation of the loop condition, and the loop body or
\* the return.
ExistsCheck(j) ==
    /\ pc[j] = "Naming"
    /\ IF MustRename(j)
       THEN /\ file_name' = [file_name EXCEPT
                               ![j] = FormatDuplicate(PathStem(PathName(elem_urls[j])),
                                                      i[j],
                                                      PathSuffix(PathName(elem_urls[j])))]
            /\ i' = [i EXCEPT ![j] = NextIndex(i[j])]
            /\ UNCHANGED <<pc, written_at_check>>
       ELSE /\ pc' = [pc EXCEPT ![j] = "Writing"]
            /\ written_at_check' =
                 [written_at_check EXCEPT
                    ![j] = {k \in Jobs : pc[k] \in {"Written", "Done"}}]
            /\ UNCHANGED <<file_name, i>>
    /\ UNCHANGED <<now, requests_per_minute, last_request_time, folder_exists,
                   files, main_pc, page_response, stdout, elem_urls,
                   current_time, wake, response, req_start, requests_made, entry_order, done_at_start,
                   files_before, folder_before, folder_usable, naming_files>>

\* Lines 125-128: open(full_file_path, "wb") creates or truncates the file,
\* the content is written and the confirmation printed.  When the folder
\* path exists but is no directory that can be written to, open raises and the
\* exception ends the job.
Write(j) ==
    /\ pc[j] = "Writing"
    /\ IF folder_usable
       THEN /\ files' = [n \in DOMAIN files \cup {file_name[j]} |->
                          IF n = file_name[j] THEN ContentOf(j) ELSE files[n]]
            /\ stdout' = Append(stdout, <<"Downloaded", file_name[j]>>)
            /\ pc' = [pc EXCEPT ![j] = "Written"]
       ELSE /\ pc' = [pc EXCEPT ![j] = "Failed"]
            /\ UNCHANGED <<files, stdout>>
    /\ UNCHANGED <<now, requests_per_minute, last_request_time, folder_exists,
                   main_pc, page_response, elem_urls, current_time, wake,
                   response, file_name, i, req_start, requests_made, entry_order, done_at_start,
                   files_before, folder_before, folder_usable, naming_files, written_at_check>>

\* Line 129: self.last_request_time = time(), inside the 200 branch.
SetLast(j) ==
    /\ pc[j] = "Written"
    /\ last_request_time' = now
    /\ pc' = [pc EXCEPT ![j] = "Done"]
    /\ UNCHANGED <<now, requests_per_minute, folder_exists, files, main_pc,
                   page_response, stdout, elem_urls, current_time, wake,
                   response, file_name, i, req_start, requests_made, entry_order, done_at_start,
                   files_before, folder_before, folder_usable, naming_files, written_at_check>>

\* Lines 140-141 and 167: the with block ends when every worker has
\* finished; then the completion notice is printed and main returns.
Join ==
    /\ main_pc = "dispatched"
    /\ AllFinished
    /\ stdout' = Append(stdout, <<"All downloads completed.">>)
    /\ main_pc' = "returned"
    /\ UNCHANGED <<now, requests_per_minute, last_request_time, folder_exists,
                   files, page_response, elem_urls, job_vars, files_before, folder_before, folder_usable>>

\* The clock advances.  Past the horizon it advances only while a worker is
\* still asleep, so that every sleep ends.
Tick ==
    /\ \/ now < StartTime + MaxElapsed
       \/ \E j \in Jobs : pc[j] = "RateLimited" /\ now < wake[j]
    /\ now' = now + 1
    /\ UNCHANGED <<requests_per_minute, last_request_time, folder_exists, files,
                   main_pc, page_response, stdout, elem_urls, job_vars,
                   files_before, folder_before, folder_usable>>

\* The steps of the pool thread that runs job j.
Worker(j) ==
    \/ Start(j)
    \/ Check(j)
    \/ SleepArg(j)
    \/ Wake(j)
    \/ Respond(j)
    \/ ExistsCheck(j)
    \/ Write(j)
    \/ SetLast(j)

Next ==
    \/ PageFetch
    \/ \E j \in Jobs : Start(j)
    \/ \E j \in Jobs : Check(j)
    \/ \E j \in Jobs : SleepArg(j)
    \/ \E j \in Jobs : Wake(j)
    \/ \E j \in Jobs : Respond(j)
    \/ \E j \in Jobs : ExistsCheck(j)
    \/ \E j \in Jobs : Write(j)
    \/ \E j \in Jobs : SetLast(j)
    \/ Join
    \/ Tick

Spec == Init /\ [][Next]_vars

\* The program started on a folder that may be unusable.
SpecDir == InitDir /\ [][Next]_vars

\* ----------------------------------------------------------------- claims

Started(j) == req_start[j] >= 0

\* Position of job j in entry_order, 0 when it has not entered yet.
EntryIndex(j) ==
    IF \E k \in DOMAIN entry_order : entry_order[k] = j
    THEN CHOOSE k \in DOMAIN entry_order : entry_order[k] = j
    ELSE 0

Got200(j) == ~response[j].raised /\ response[j].status_code = 200

Completed == <<"All downloads completed.">>

NoticePrinted == \E k \in DOMAIN stdout : stdout[k] = Completed

\* C1 (as claimed): of two jobs whose requests have started, the one that
\* entered the rate-limit check later starts its request at least one
\* interval after the other.
C1_RequestStartsSpaced ==
    \A a, b \in Jobs :
        (Started(a) /\ Started(b) /\ EntryIndex(a) < EntryIndex(b))
            => req_start[b] - req_start[a] >= Interval

\* A worker is between its read of last_request_time (line 115) and the end
\* of its call, where the only write of it is (line 129).
InCheckWaitUpdate(j) ==
    pc[j] \in {"SleepArg", "RateLimited", "Fetching", "Naming", "Writing", "Written"}

\* C2 (as claimed): at most one worker at a time is between its read of
\* last_request_time and its write of it.
C2_CheckWaitUpdateExclusive ==
    Cardinality({j \in Jobs : InCheckWaitUpdate(j)}) <= 1

\* C3 (as claimed): once a job's request has started, last_request_time has
\* been set to a time no earlier than that start, whatever the fetch returns.
C3_LastRequestTimeSetBeforeRequest ==
    \A j \in Jobs : Started(j) => last_request_time >= req_start[j]

\* C4: after a page fetch that did not return 200 (another status, or an
\* exception) no job exists, no element fetch was issued and the directory
\* is as it was before the run.
C4_PageFailureDoesNothing ==
    (main_pc # "start" /\ (page_response.raised \/ page_response.status_code # 200))
        => /\ Jobs = {}
           /\ entry_order = << >>
           /\ files = [n \in files_before |-> OldContent]
           /\ ~NoticePrinted

\* The page came back 404 and the program has ended, with files in the
\* directory and the clock advanced.
C4_Witness ==
    /\ main_pc = "returned"
    /\ page_response.status_code = 404
    /\ files_before = {A_PNG, A1_PNG}
    /\ now = StartTime + MaxElapsed

\* C5 (as claimed): a run whose page fetch returned a status other than 200
\* ends with a non-zero failure outcome.
C5_PageNon200ReportsFailure ==
    (main_pc \in {"returned", "raised"}
        /\ ~page_response.raised /\ page_response.status_code # 200)
        => ExitCode # 0

\* The run has come to the end of download_all_elements after dispatching.
RunEnded == main_pc = "returned" /\ ~page_response.raised /\ page_response.status_code = 200

\* C6: when the run has ended after a page fetch of 200, the completion
\* notice is the last line printed, the program has not failed, and every job
\* whose fetch returned 200 has written its file, whatever happened to the
\* other jobs; its file holds its bytes unless another job with a 200 response
\* wrote the same name.
C6_PartialFailureIsolation ==
    RunEnded =>
        /\ Len(stdout) > 0 /\ stdout[Len(stdout)] = Completed
        /\ ExitCode = 0
        /\ \A j \in Jobs :
             Got200(j) =>
                /\ pc[j] = "Done"
                /\ file_name[j] \in DOMAIN files
                /\ (\A k \in Jobs \ {j} : Got200(k) => file_name[k] # file_name[j])
                      => files[file_name[j]] = ContentOf(j)

\* The run has ended with one job skipped after a 404, or after an exception
\* of the fetch, and another job's file written.
C6_Witness ==
    /\ RunEnded
    /\ \E a, b \in Jobs :
         /\ pc[a] = "Skipped"
         /\ pc[b] = "Done"
         /\ files[file_name[b]] = ContentOf(b)

\* C7: when the completion notice has been printed, every dispatched job has
\* finished: none is pending, waiting, fetching, naming or writing.
C7_NoticeOnlyAfterAllFinished ==
    NoticePrinted => \A j \in Jobs : pc[j] \in {"Done", "Skipped"}

\* The notice has been printed after two jobs, one written and one skipped.
C7_Witness ==
    /\ NoticePrinted
    /\ \E a, b \in Jobs : pc[a] = "Done" /\ pc[b] = "Skipped"

HasWritten(j) == pc[j] \in {"Written", "Done"}

\* C8 (as claimed): two jobs that have written their files have written to
\* different names, and at the end of the run the directory has one more
\* file for each downloaded element.
C8_NoTwoDownloadsShareAName ==
    /\ \A a, b \in Jobs :
         (a # b /\ HasWritten(a) /\ HasWritten(b)) => file_name[a] # file_name[b]
    /\ RunEnded =>
         Cardinality(DOMAIN files \ files_before)
            = Cardinality({j \in Jobs : Got200(j)})

\* C8 (amended): a job that resolved its name after another job had written
\* its file writes to a different name than that job.
C8_DistinctNamesWhenWrittenBeforeCheck ==
    \A a, b \in Jobs :
        (pc[b] \in {"Writing", "Written", "Done"} /\ a \in written_at_check[b])
            => file_name[a] # file_name[b]

\* Two jobs with the same base name have both written, the second resolving
\* its name after the first had written, to a_(1).png.
C8_Witness ==
    \E a, b \in Jobs :
        /\ a # b
        /\ PathName(elem_urls[a]) = PathName(elem_urls[b])
        /\ HasWritten(a) /\ HasWritten(b)
        /\ a \in written_at_check[b]
        /\ file_name[a] = A_PNG /\ file_name[b] = A1_PNG

\* Smallest k in 1.. for which stem_(k)ext is not in dir.
FirstFreeIndex(candidate, dir) ==
    CHOOSE k \in 1..(Cardinality(dir) + 1) :
        /\ FormatDuplicate(PathStem(candidate), k, PathSuffix(candidate)) \notin dir
        /\ \A m \in 1..(k - 1) :
             FormatDuplicate(PathStem(candidate), m, PathSuffix(candidate)) \in dir

\* The name the claim says _rename_duplicate_files returns.
FirstFreeName(candidate, dir) ==
    IF candidate \notin dir THEN candidate
    ELSE FormatDuplicate(PathStem(candidate),
                         FirstFreeIndex(candidate, dir),
                         PathSuffix(candidate))

\* _rename_duplicate_files has returned for job j and no file was added to
\* the directory since the job entered it.
ResolvedAlone(j) == pc[j] = "Writing" /\ DOMAIN files = naming_files[j]

\* C10: a rename that ran without another worker adding a file returns the
\* candidate when it is free and otherwise stem_(k)ext for the smallest free
\* k >= 1; the name returned is not in the directory; a.png gives a.png,
\* a_(1).png and a_(2).png on the three directories of the example.
C10_RenameReturnsFirstFreeName ==
    \A j \in Jobs :
        ResolvedAlone(j) =>
            LET candidate == PathName(elem_urls[j])
                dir == DOMAIN files
            IN  /\ file_name[j] = FirstFreeName(candidate, dir)
                /\ file_name[j] \notin dir
                /\ candidate \notin dir => file_name[j] = candidate
                /\ (candidate = A_PNG /\ dir = {}) => file_name[j] = A_PNG
                /\ (candidate = A_PNG /\ dir = {A_PNG}) => file_name[j] = A1_PNG
                /\ (candidate = A_PNG /\ dir = {A_PNG, A1_PNG})
                      => file_name[j] = A2_PNG

\* A rename of a.png has returned a_(2).png with a.png and a_(1).png present.
C10_Witness ==
    \E j \in Jobs :
        /\ ResolvedAlone(j)
        /\ DOMAIN files = {A_PNG, A1_PNG}
        /\ file_name[j] = A2_PNG

\* --------------------------------------------------------------- liveness

\* Every pool thread that can take a step eventually takes one, the main
\* thread leaves the with block once it can, and time passes.
Fairness ==
    /\ WF_vars(Tick)
    /\ WF_vars(Join)
    /\ \A j \in 1..MaxJobs : WF_vars(j \in Jobs /\ Worker(j))

LiveSpec == Init /\ [][Next]_vars /\ Fairness

\* C9: under fair scheduling, once the jobs are dispatched every one of them
\* eventually is Done or Skipped (none stays Pending, RateLimited, Fetching,
\* Naming or Writing), and a job that is Done or Skipped stays as it is.
C9_EveryJobTerminates ==
    /\ (main_pc = "dispatched") ~> (\A j \in Jobs : pc[j] \in {"Done", "Skipped"})
    /\ [][\A j \in Jobs : pc[j] \in {"Done", "Skipped"} => pc'[j] = pc[j]]_vars

\* A job has ended Done after sleeping in the rate limiter and renaming.
C9_Witness ==
    \E j \in Jobs :
        /\ pc[j] = "Done"
        /\ wake[j] > 0
        /\ file_name[j] = A2_PNG

\* ------------------------------------------------------- claims, continued

README_1 == <<"R", "E", "A", "D", "M", "E", "_", "(", "1", ")">>
README_2 == <<"R", "E", "A", "D", "M", "E", "_", "(", "2", ")">>

\* C11: for a candidate without extension a rename that ran undisturbed
\* returns the whole name followed by _(k) and nothing after it: README gives
\* README_(1) when README is present and README_(2) when README_(1) is too.
C11_NoExtensionNoTrailingDot ==
    \A j \in Jobs :
        (ResolvedAlone(j) /\ PathName(elem_urls[j]) = README) =>
            LET dir == DOMAIN files
            IN  /\ file_name[j][Len(file_name[j])] # "."
                /\ README \notin dir => file_name[j] = README
                /\ (README \in dir /\ README_1 \notin dir) => file_name[j] = README_1
                /\ (README \in dir /\ README_1 \in dir) => file_name[j] = README_2

\* A rename of README has returned README_(2): README was there before the
\* run and another job had written README_(1).
C11_Witness ==
    \E j \in Jobs :
        /\ ResolvedAlone(j)
        /\ DOMAIN files = {README, README_1}
        /\ file_name[j] = README_2

\* The fetch of job j has come back with a status other than 200, or raised.
FetchFailed(j) == response[j] # NoResponse /\ ~Got200(j)

\* C12: a job whose fetch returned another status than 200 or raised is
\* Skipped after its one request, never entered the rename and has no file;
\* while no job has a 200 response the folder and its files are as before
\* the run.
C12_FailedJobLeavesFilesystemAlone ==
    /\ \A j \in Jobs :
         FetchFailed(j) =>
            /\ pc[j] = "Skipped"
            /\ requests_made[j] = 1
            /\ file_name[j] = << >>
            /\ \A n \in DOMAIN files : files[n] # ContentOf(j)
    /\ (\A j \in Jobs : ~Got200(j)) =>
            /\ folder_exists = folder_before
            /\ files = [n \in files_before |-> OldContent]

\* The run has ended with one job skipped after a 404 and one after an
\* exception, and the folder still does not exist.
C12_Witness ==
    /\ main_pc = "returned"
    /\ ~folder_before /\ ~folder_exists
    /\ \E a, b \in Jobs :
         /\ pc[a] = "Skipped" /\ response[a].status_code = 404
         /\ pc[b] = "Skipped" /\ response[b].raised

\* C13 (as claimed): when the folder cannot be created or used, no element
\* fetch is issued and the completion notice is not printed.
C13_UnusableFolderAbortsBeforeDispatch ==
    ~folder_usable =>
        /\ \A j \in Jobs : ~Started(j)
        /\ ~NoticePrinted

\* C14: no job calls _make_request more than once, a job past the rate limit
\* has called it exactly once, and when the run has ended there is one job
\* per extracted URL and each has made its one request.
C14_OneFetchPerUrl ==
    /\ \A j \in Jobs :
         /\ requests_made[j] <= 1
         /\ pc[j] \notin {"Pending", "Check", "SleepArg", "RateLimited"}
               => requests_made[j] = 1
    /\ RunEnded =>
         /\ DOMAIN requests_made = 1..Len(elem_urls)
         /\ \A j \in 1..Len(elem_urls) : requests_made[j] = 1

\* The run has ended after two URLs, one fetched with 200 and one with 404.
C14_Witness ==
    /\ RunEnded
    /\ Len(elem_urls) = 2
    /\ \E a, b \in Jobs :
         /\ pc[a] = "Done" /\ requests_made[a] = 1
         /\ pc[b] = "Skipped" /\ response[b].status_code = 404 /\ requests_made[b] = 1

\* Position of a job in the sequence wait, fetch, name, write.
Rank(p) ==
    CASE p = "Pending" -> 0
      [] p = "Check" -> 1
      [] p = "SleepArg" -> 2
      [] p = "RateLimited" -> 3
      [] p = "Fetching" -> 4
      [] p = "Naming" -> 5
      [] p = "Writing" -> 6
      [] p = "Written" -> 7
      [] OTHER -> 8

\* What holds of job j wherever it is: it names and writes only after its
\* own 200 response, its request started no earlier than its sleep ended, it
\* has made one request at most, and its bytes are in one file at most and in
\* none before it wrote.
InOrder(j) ==
    /\ pc[j] \in {"Naming", "Writing", "Written", "Done"}
          => (Got200(j) /\ Started(j))
    /\ pc[j] \in {"Fetching", "Naming", "Writing", "Written", "Done", "Skipped"}
          => (Started(j) /\ (wake[j] = 0 \/ req_start[j] >= wake[j]))
    /\ pc[j] \in {"Pending", "Check", "SleepArg", "RateLimited"} => ~Started(j)
    /\ requests_made[j] <= 1
    /\ Cardinality({n \in DOMAIN files : files[n] = ContentOf(j)})
          <= (IF pc[j] \in {"Written", "Done"} THEN 1 ELSE 0)

\* C15: no step of a job takes it back to an earlier one of wait, fetch,
\* name, write, and after every step the job is in order.
C15_StepsInOrder ==
    [][\A j \in Jobs : Rank(pc'[j]) >= Rank(pc[j]) /\ InOrder(j)']_vars

\* A job has gone through all of it: slept, fetched, renamed and written.
C15_Witness ==
    \E j \in Jobs :
        /\ pc[j] = "Done"
        /\ wake[j] > 0 /\ req_start[j] >= wake[j]
        /\ file_name[j] = A1_PNG
        /\ files[A1_PNG] = ContentOf(j)

\* C16: every file that was in the folder before the run is there with its
\* old content, and a job that has resolved its name has a name that no file
\* had when its last existence check ran: none from before the run, and none
\* written by a job that had written by then.
C16_PresentFilesNotOverwritten ==
    /\ \A n \in files_before : n \in DOMAIN files /\ files[n] = OldContent
    /\ \A j \in Jobs :
         pc[j] \in {"Writing", "Written", "Done"} =>
            file_name[j] \notin
               (files_before \cup {file_name[a] : a \in written_at_check[j]})

\* The run has ended with two downloads of a.png next to the a.png that was
\* there before.
C16_Witness ==
    /\ RunEnded
    /\ files_before = {A_PNG}
    /\ \E a, b \in Jobs : a # b /\ pc[a] = "Done" /\ pc[b] = "Done"
    /\ files[A_PNG] = OldContent

\* 60 / requests_per_minute, as the claims state it.
RequiredGap == TicksPerMinute \div requests_per_minute

\* C17: a job that entered download_single_element when another job was Done
\* (as every later job of a single worker does with every earlier one, all
\* fetches being 200) starts its request at least 60 / requests_per_minute
\* after the start of that job's request.
C17_SerialJobsSpaced ==
    \A a, b \in Jobs :
        (a \in done_at_start[b] /\ Started(b))
            => req_start[b] - req_start[a] >= RequiredGap

\* The second of two jobs run one after the other has slept and started its
\* request exactly one interval after the first.
C17_Witness ==
    \E a, b \in Jobs :
        /\ a \in done_at_start[b]
        /\ Started(b)
        /\ wake[b] > 0
        /\ req_start[b] - req_start[a] = RequiredGap

\* C18 (as claimed): a worker inside sleep() has at most
\* 60 / requests_per_minute left to sleep.
C18_SleepAtMostInterval ==
    \A j \in Jobs : pc[j] = "RateLimited" => wake[j] - now <= RequiredGap

====
